---- MODULE Spec2Model ----
(***************************************************************************)
(* Model of src/accounting.py: net_income(revenues, expenses, decimals=2). *)
(*                                                                         *)
(* The function works on Python floats (binary floating point, round to    *)
(* nearest, ties to even) and Python ints (unbounded).  The model keeps    *)
(* the float semantics and shrinks the format: a float has Prec            *)
(* significant bits, its smallest positive value is 2^-Frac, and its       *)
(* largest exponent is MaxShift binades above the subnormals.  A finite    *)
(* float is held as the integer n with value n / 2^Frac; n is              *)
(* representable when n = o * 2^t with |o| < 2^Prec and 0 <= t <= MaxShift.*)
(* Signed zero is not distinguished: the function never returns -0.0 for   *)
(* the inputs considered and -0.0 == 0.0 in Python.                        *)
(***************************************************************************)
EXTENDS Integers, FiniteSets, Sequences, TLC

(* ---------- bounds of the model ---------- *)
Prec == 5
Frac == 6
MaxShift == 12
MaxDecimals == 4
MaxNegDecimals == 3

(* ---------- integer helpers ---------- *)
RECURSIVE Pow2(_)
Pow2(k) == IF k <= 0 THEN 1 ELSE 2 * Pow2(k - 1)

RECURSIVE Pow10(_)
Pow10(k) == IF k <= 0 THEN 1 ELSE 10 * Pow10(k - 1)

Abs(i) == IF i < 0 THEN -i ELSE i

Sign(i) == IF i < 0 THEN -1 ELSE 1

Scale == Pow2(Frac)

MaxN == (Pow2(Prec) - 1) * Pow2(MaxShift)

(* number of binades by which q exceeds the Prec-bit range *)
RECURSIVE ExcessBits(_)
ExcessBits(q) == IF q < Pow2(Prec) THEN 0 ELSE 1 + ExcessBits(q \div 2)

(* number of trailing zero bits of n > 0 *)
RECURSIVE TrailingZeros(_)
TrailingZeros(n) == IF n = 0 \/ n % 2 = 1 THEN 0 ELSE 1 + TrailingZeros(n \div 2)

(* ---------- the float type ---------- *)
Fin(n) == [k |-> "fin", n |-> n]
PosInf == [k |-> "inf", n |-> 1]
NegInf == [k |-> "inf", n |-> -1]
NaN == [k |-> "nan", n |-> 0]
Inf(s) == IF s < 0 THEN NegInf ELSE PosInf

IsFinite(x) == x.k = "fin"

FiniteN == {s * o * Pow2(t) : s \in {-1, 1}, o \in 0..(Pow2(Prec) - 1), t \in 0..MaxShift}

Floats == {Fin(n) : n \in FiniteN}

Zero == Fin(0)
Half == Fin(Scale \div 2)

(* Round the non-negative rational N/D, counted in units of 2^-Frac, to   *)
(* the nearest representable magnitude, ties to even; MaxN + 1 stands for *)
(* a magnitude that overflows the format.                                 *)
RoundMag(N, D) ==
    LET q == N \div D
        U == Pow2(ExcessBits(q))
        m == N \div (D * U)
        rem == N - m * (D * U)
        up == 2 * rem > D * U \/ (2 * rem = D * U /\ m % 2 = 1)
        r == (IF up THEN m + 1 ELSE m) * U
    IN  IF r > MaxN THEN MaxN + 1 ELSE r

(* the float nearest to s * N / D units *)
RoundQ(s, N, D) ==
    LET r == RoundMag(N, D)
    IN  IF r > MaxN THEN Inf(s) ELSE Fin(s * r)

Neg(x) == [k |-> x.k, n |-> -x.n]

(* float + float *)
FAdd(x, y) ==
    IF x.k = "nan" \/ y.k = "nan" THEN NaN
    ELSE IF x.k = "inf" /\ y.k = "inf" THEN (IF x.n = y.n THEN x ELSE NaN)
    ELSE IF x.k = "inf" THEN x
    ELSE IF y.k = "inf" THEN y
    ELSE RoundQ(Sign(x.n + y.n), Abs(x.n + y.n), 1)

(* float - float *)
FSub(x, y) == FAdd(x, Neg(y))

(* float * float; a product of at least 2^(Prec + MaxShift) units is      *)
(* beyond the largest finite float and overflows to infinity              *)
FMul(x, y) ==
    IF x.k = "nan" \/ y.k = "nan" THEN NaN
    ELSE IF x.k = "inf" \/ y.k = "inf"
         THEN (IF x.n = 0 \/ y.n = 0 THEN NaN ELSE Inf(Sign(x.n) * Sign(y.n)))
    ELSE IF x.n = 0 \/ y.n = 0 THEN Zero
    ELSE LET tx == TrailingZeros(Abs(x.n))
             ty == TrailingZeros(Abs(y.n))
             o == (Abs(x.n) \div Pow2(tx)) * (Abs(y.n) \div Pow2(ty))
             e == tx + ty - Frac
             s == Sign(x.n) * Sign(y.n)
         IN  IF e >= 0 /\ o >= Pow2(Prec + MaxShift) \div Pow2(e) THEN Inf(s)
             ELSE IF e >= 0 THEN RoundQ(s, o * Pow2(e), 1)
             ELSE RoundQ(s, o, Pow2(-e))

(* float / float for finite operands with y # 0 *)
FDiv(x, y) == RoundQ(Sign(x.n) * Sign(y.n), Abs(x.n) * Scale, Abs(y.n))

(* ---------- Python numeric operations used by net_income ---------- *)
Return(v) == [ok |-> TRUE, val |-> v, exc |-> "none"]
Raise(e) == [ok |-> FALSE, val |-> NaN, exc |-> e]

(* float(i) for a Python int: correctly rounded, OverflowError when the   *)
(* int is too large to convert                                            *)
FloatOfInt(i) ==
    LET f == RoundQ(Sign(i), Abs(i) * Scale, 1)
    IN  IF IsFinite(f) THEN Return(f) ELSE Raise("OverflowError")

(* int / int, Python true division: the correctly rounded quotient *)
IntTrueDiv(K, m) == RoundQ(Sign(K), Abs(K) * Scale, m)

(* math.floor(y): an int, ValueError for NaN, OverflowError for infinity *)
Floor(y) ==
    IF y.k = "nan" THEN Raise("ValueError")
    ELSE IF y.k = "inf" THEN Raise("OverflowError")
    ELSE [ok |-> TRUE, val |-> y.n \div Scale, exc |-> "none"]

(* a default of 0 instead of 2 *)
BindDecimalsZero(given, d) == IF given THEN d ELSE 0

(* decimals = 2 in the signature: the value bound when the argument is    *)
(* omitted                                                                *)
BindDecimals(given, d) == IF given THEN d ELSE 2

(* line 16: 10 ** decimals is an int for decimals >= 0 and the float      *)
(* pow(10.0, decimals) otherwise                                          *)
Multiplier(d) ==
    IF d >= 0 THEN [int |-> TRUE, i |-> Pow10(d), f |-> Zero]
    ELSE [int |-> FALSE, i |-> 0, f |-> RoundQ(1, Scale, Pow10(-d))]

(* line 17: revenues - expenses *)
Difference(r, e) == FSub(r, e)

(* line 18, net_income * multiplier: an int operand is converted to float *)
Product(net, mult) ==
    IF mult.int
    THEN LET c == FloatOfInt(mult.i)
         IN  IF c.ok THEN Return(FMul(net, c.val)) ELSE c
    ELSE Return(FMul(net, mult.f))

(* int(x + 0.5): truncation toward zero instead of math.floor *)
RoundHalfTrunc(x) ==
    LET y == FAdd(x, Half)
    IN  IF IsFinite(y) /\ y.n < 0
        THEN [ok |-> TRUE, val |-> -((-y.n) \div Scale), exc |-> "none"]
        ELSE Floor(y)

(* round(x): halves to the even integer instead of floor(x + 0.5) *)
RoundHalfEven(x) ==
    IF ~IsFinite(x) THEN Floor(x)
    ELSE LET f == x.n \div Scale
             r == x.n % Scale
             up == 2 * r > Scale \/ (2 * r = Scale /\ f % 2 = 1)
         IN  [ok |-> TRUE, val |-> IF up THEN f + 1 ELSE f, exc |-> "none"]

(* math.floor(x): the 0.5 is not added *)
RoundFloorOnly(x) == Floor(x)

(* symmetric rounding, halves away from zero, instead of floor(x + 0.5) *)
RoundHalfAway(x) ==
    IF IsFinite(x) /\ x.n < 0
    THEN LET K == Floor(FAdd(Neg(x), Half))
         IN  [ok |-> K.ok, val |-> -K.val, exc |-> K.exc]
    ELSE Floor(FAdd(x, Half))

(* line 18, math.floor(x + 0.5) *)
RoundHalfUp(x) == Floor(FAdd(x, Half))

(* a negative decimals rejected with an error instead of dividing by the  *)
(* fractional multiplier                                                  *)
QuotientRejectNegative(K, mult) ==
    IF mult.int THEN Return(IntTrueDiv(K, mult.i)) ELSE Raise("InvalidArgument")

(* line 18, K / multiplier for the int K *)
Quotient(K, mult) ==
    IF mult.int THEN Return(IntTrueDiv(K, mult.i))
    ELSE IF mult.f.n = 0 THEN Raise("ZeroDivisionError")
    ELSE LET c == FloatOfInt(K)
         IN  IF c.ok THEN Return(FDiv(c.val, mult.f)) ELSE c

(* the difference returned as it is, neither scaled nor rounded *)
Line18Unrounded(net, mult) ==
    LET p == Product(net, mult)
    IN  IF ~p.ok THEN p
        ELSE IF ~IsFinite(p.val) THEN Raise("OverflowError")
        ELSE Return(net)

(* line 18 as a whole, in Python's order of evaluation *)
Line18(net, mult) ==
    LET p == Product(net, mult)
    IN  IF ~p.ok THEN p
        ELSE LET K == RoundHalfUp(p.val)
             IN  IF ~K.ok THEN Raise(K.exc) ELSE Quotient(K.val, mult)

(* the whole call net_income(r, e, d) *)
NetIncome(r, e, d) == Line18(Difference(r, e), Multiplier(d))

(* ---------- the call as a state machine ---------- *)
VARIABLES revenues, expenses, given, decimals, multiplier, net_income, outcome, pc

vars == <<revenues, expenses, given, decimals, multiplier, net_income, outcome, pc>>

NoMultiplier == [int |-> TRUE, i |-> 0, f |-> Zero]
Pending == [ok |-> FALSE, val |-> NaN, exc |-> "pending"]

(* expenses paired with every revenues: the same value, zero, small and   *)
(* large values of both signs                                             *)
ExpenseSamples(r) ==
    {r} \cup {Fin(n) : n \in {0, 1, Scale \div 2, -(3 * Scale) \div 2, 3 * Scale, MaxN, -MaxN}}

Init ==
    /\ revenues \in Floats
    /\ expenses \in ExpenseSamples(revenues)
    /\ given \in BOOLEAN
    /\ decimals \in (IF given THEN (-MaxNegDecimals)..MaxDecimals ELSE {0})
    /\ multiplier = NoMultiplier
    /\ net_income = Zero
    /\ outcome = Pending
    /\ pc = "call"

(* line 4: the parameters are bound, decimals to its default if omitted *)
Enter ==
    /\ pc = "call"
    /\ decimals' = BindDecimals(given, decimals)
    /\ pc' = "l16"
    /\ UNCHANGED <<revenues, expenses, given, multiplier, net_income, outcome>>

Line16 ==
    /\ pc = "l16"
    /\ multiplier' = Multiplier(decimals)
    /\ pc' = "l17"
    /\ UNCHANGED <<revenues, expenses, given, decimals, net_income, outcome>>

Line17 ==
    /\ pc = "l17"
    /\ net_income' = Difference(revenues, expenses)
    /\ pc' = "l18"
    /\ UNCHANGED <<revenues, expenses, given, decimals, multiplier, outcome>>

Line18Step ==
    /\ pc = "l18"
    /\ outcome' = Line18(net_income, multiplier)
    /\ pc' = IF outcome'.ok THEN "done" ELSE "raised"
    /\ UNCHANGED <<revenues, expenses, given, decimals, multiplier, net_income>>

Next == Enter \/ Line16 \/ Line17 \/ Line18Step

Spec == Init /\ [][Next]_vars

Returned == pc = "done"
Raised == pc = "raised"
Finished == Returned \/ Raised

TypeOK ==
    /\ revenues \in Floats /\ expenses \in Floats
    /\ pc \in {"call", "l16", "l17", "l18", "done", "raised"}
    /\ Returned => outcome.ok /\ outcome.val.k \in {"fin", "inf"}
    /\ Returned /\ outcome.val.k = "fin" => outcome.val.n \in FiniteN

(* ---------- values the properties refer to ---------- *)

(* revenues - expenses in exact arithmetic, in units of 2^-Frac *)
ExactDiff == revenues.n - expenses.n

(* the value of net_income * multiplier computed by line 18 *)
CallProduct == Product(net_income, multiplier)

(* x is finite and exactly halfway between two consecutive integers *)
Halfway(x) == IsFinite(x) /\ x.n % Scale = Scale \div 2

(* the float nearest to the rational K / m, as a float literal denotes it *)
NearestFloat(K, m) == RoundQ(Sign(K), Abs(K) * Scale, m)

(* ---------- C7 ---------- *)
(* C7: a call with finite revenues and expenses and a non-negative        *)
(* integer decimals raises no exception: it completes and returns a       *)
(* number.                                                                *)
C7_NoException == (Finished /\ decimals >= 0) => Returned

(* ---------- C6 ---------- *)
(* C6: when revenues = expenses, for every non-negative integer decimals, *)
(* net_income returns 0.                                                  *)
C6_EqualInputsGiveZero ==
    (Finished /\ decimals >= 0 /\ revenues = expenses) => (Returned /\ outcome.val = Zero)

(* ---------- C9 ---------- *)
(* C9: decimals defaults to 2: a call with decimals omitted has the same  *)
(* outcome as net_income(revenues, expenses, 2).                          *)
C9_DefaultIsTwo == (Finished /\ ~given) => outcome = NetIncome(revenues, expenses, 2)

(* a call without decimals returned, and rounding at 0 decimals would     *)
(* have returned something else                                           *)
C9_Witness == Returned /\ ~given /\ outcome # NetIncome(revenues, expenses, 0)

ExactRounded == (2 * ExactDiff * Pow10(decimals) + Scale) \div (2 * Scale)

(* the conversion of 10^decimals, the subtraction, the multiplication and *)
(* the addition of 0.5 all gave their exact real results                  *)
ExactOps ==
    /\ decimals >= 0
    /\ LET c == FloatOfInt(Pow10(decimals))
       IN  c.ok /\ c.val.n = Pow10(decimals) * Scale
    /\ IsFinite(net_income) /\ net_income.n = ExactDiff
    /\ CallProduct.ok /\ IsFinite(CallProduct.val)
    /\ CallProduct.val.n = net_income.n * Pow10(decimals)
    /\ LET y == FAdd(CallProduct.val, Half)
       IN  IsFinite(y) /\ y.n = CallProduct.val.n + Scale \div 2

SwappedOutcome == NetIncome(expenses, revenues, decimals)

(* adding 0.5 to x is exact in floating point *)
AddHalfExact(x) ==
    /\ IsFinite(x)
    /\ LET y == FAdd(x, Half) IN IsFinite(y) /\ y.n = x.n + Scale \div 2

(* the two results are negatives of each other, except that at a halfway  *)
(* product k + 1/2 they are (k + 1) / 10^decimals and k / 10^decimals     *)
AntisymmetricOffHalves ==
    LET x == CallProduct.val
        k == (x.n - Scale \div 2) \div Scale
    IN  IF Halfway(x)
        THEN /\ outcome.val = NearestFloat(k + 1, Pow10(decimals))
             /\ Neg(SwappedOutcome.val) = NearestFloat(k, Pow10(decimals))
        ELSE outcome.val = Neg(SwappedOutcome.val)

(* C3 as stated: net_income(revenues, expenses, decimals) equals          *)
(* -net_income(expenses, revenues, decimals) unless the product           *)
(* (revenues - expenses) * 10^decimals is exactly halfway between two     *)
(* integers, and there the two differ by one unit of 10^-decimals.        *)
C3_Antisymmetric ==
    (Returned /\ decimals >= 0 /\ SwappedOutcome.ok) => AntisymmetricOffHalves

(* C3 as amended: the same, for the inputs on which adding 0.5 to the     *)
(* product x and to -x is exact in floating point (it is inexact when x   *)
(* is within a rounding error of a halfway point or beyond the range      *)
(* where floats have a 0.5 bit); both calls then return.                  *)
C3_AntisymmetricWhenAddExact ==
    (Finished /\ decimals >= 0 /\ CallProduct.ok
       /\ AddHalfExact(CallProduct.val) /\ AddHalfExact(Neg(CallProduct.val)))
        => (Returned /\ SwappedOutcome.ok /\ AntisymmetricOffHalves)

(* a halfway product with exact additions whose two results differ *)
C3_Witness ==
    /\ Returned /\ decimals >= 1 /\ Halfway(CallProduct.val)
    /\ AddHalfExact(CallProduct.val) /\ AddHalfExact(Neg(CallProduct.val))
    /\ SwappedOutcome.ok /\ outcome.val # Neg(SwappedOutcome.val)

(* ---------- C4 ---------- *)
(* C4: feeding the result back in at the same precision returns it        *)
(* unchanged: net_income(net_income(revenues, expenses, decimals), 0,     *)
(* decimals) = net_income(revenues, expenses, decimals).                  *)
C4_Idempotent ==
    (Returned /\ decimals >= 0) => NetIncome(outcome.val, Zero, decimals) = outcome

(* ---------- C5 ---------- *)

(* the integers K for which K / m can round to the float v *)
DecimalWindow(v, m) ==
    LET c == (v.n * m) \div Scale
        R == (2 * Abs(v.n * m)) \div (Scale * Pow2(Prec)) + m \div Scale + 2
    IN  (c - R)..(c + R)

(* C5 as stated: the result multiplied by 10^decimals is an integer.      *)
C5_ScaledResultIsInteger ==
    (Returned /\ decimals >= 0)
        => LET p == Product(outcome.val, multiplier)
           IN  p.ok /\ IsFinite(p.val) /\ p.val.n % Scale = 0

(* C5 as amended: every value returned for a non-negative decimals is the *)
(* float nearest to K / 10^decimals for an integer K; multiplied by       *)
(* 10^decimals it is an integer only up to floating-point rounding.       *)
C5_NearestToDecimal ==
    (Returned /\ decimals >= 0)
        => \E K \in DecimalWindow(outcome.val, Pow10(decimals)) :
              outcome.val = NearestFloat(K, Pow10(decimals))

(* a returned value whose exact multiple by 10^decimals is no integer *)
C5_Witness ==
    /\ Returned /\ decimals >= 1
    /\ (outcome.val.n * Pow10(decimals)) % Scale # 0

(* ---------- C8 ---------- *)

(* the float pow(10.0, decimals) for a negative decimals *)
FractionalMultiplier == NearestFloat(1, Pow10(-decimals))

(* the integers K for which K / M can round to the float v *)
QuotientWindow(v, M) ==
    LET c == (v.n * M.n) \div (Scale * Scale)
        R == (2 * Abs(c)) \div Pow2(Prec) + 2
    IN  (c - R)..(c + R)

(* C8 as stated: a negative decimals yields an InvalidArgument error      *)
(* instead of a number computed with a fractional multiplier.             *)
C8_NegativeDecimalsRejected ==
    (Finished /\ decimals < 0) => (Raised /\ outcome.exc = "InvalidArgument")

(* C8 as amended: a negative decimals never yields an InvalidArgument     *)
(* error.  The call computes with the fractional float multiplier M =     *)
(* 10^decimals: when M is not zero and the difference is finite it        *)
(* returns K / M for an integer K (infinity if the quotient overflows);   *)
(* when M has underflowed to 0.0 it raises ZeroDivisionError, or          *)
(* ValueError for an infinite difference; an infinite difference with a   *)
(* non-zero M raises OverflowError.                                       *)
C8_NegativeDecimalsComputed ==
    (Finished /\ decimals < 0)
        => LET M == FractionalMultiplier
           IN  /\ outcome.exc # "InvalidArgument"
               /\ Returned <=> (M # Zero /\ IsFinite(net_income))
               /\ Returned =>
                     \/ outcome.val.k = "inf"
                     \/ \E K \in QuotientWindow(outcome.val, M) :
                           outcome.val = FDiv(Fin(K * Scale), M)
               /\ Raised =>
                     outcome.exc = (IF M = Zero
                                    THEN (IF IsFinite(net_income) THEN "ZeroDivisionError"
                                          ELSE "ValueError")
                                    ELSE "OverflowError")

(* a call with a negative decimals returned a non-zero number *)
C8_Witness == Returned /\ decimals < 0 /\ IsFinite(outcome.val) /\ outcome.val # Zero

(* ---------- C10 ---------- *)

(* C10 as stated: with u = 10^-decimals,                                  *)
(* (revenues - expenses) - u/2 < result <= (revenues - expenses) + u/2.   *)
C10_WithinHalfUnit ==
    (Returned /\ decimals >= 0)
        => LET d2 == 2 * Pow10(decimals) * ExactDiff
               r2 == 2 * Pow10(decimals) * outcome.val.n
           IN  d2 - Scale < r2 /\ r2 <= d2 + Scale

(* |result - (revenues - expenses)| <= u/2 + 2^(3 - Prec) * (|revenues -  *)
(* expenses| + u) + 2^-(Frac + 1), all multiplied by                      *)
(* 2^(Frac + Prec + 1) * 10^decimals and arranged to stay in range        *)
WithinTolerance(res, m) ==
    LET D == Abs(res.n - ExactDiff)
        T == Abs(ExactDiff)
        z == D * Pow2(Prec - 3) - T
        B == Scale * Pow2(Prec) + 16 * Scale + m * Pow2(Prec)
    IN  z <= 0 \/ (z <= B /\ 16 * m * z <= B)

(* C10 as amended: every value returned for a non-negative decimals       *)
(* deviates from the exact difference by at most half a unit plus the     *)
(* floating-point rounding error: |result - (revenues - expenses)| <=     *)
(* u/2 + 8 * eps * (|revenues - expenses| + u) + tiny, where eps =        *)
(* 2^-Prec is the relative rounding error of the float format and tiny    *)
(* is half the smallest positive float.                                   *)
C10_WithinHalfUnitAndRounding ==
    (Returned /\ decimals >= 0) => WithinTolerance(outcome.val, Pow10(decimals))

(* a returned value beyond the exact upper edge (revenues - expenses) +   *)
(* u/2 *)
C10_Witness ==
    /\ Returned /\ decimals >= 1
    /\ 2 * Pow10(decimals) * outcome.val.n > 2 * Pow10(decimals) * ExactDiff + Scale
====
